---- MODULE Spec2Model ----
(***************************************************************************)
(* A model of package aelog: a log/slog handler that rewrites records into *)
(* the layout of Google Cloud Logging, and an HTTP middleware that carries *)
(* per-request attributes to it through the request context.               *)
(*                                                                         *)
(* Strings are TLA+ strings (Len, SubSeq and \o act on them as on Go       *)
(* strings).  A slog.Value is a record with one field per payload, all     *)
(* always present, so that two values are compared field by field.         *)
(***************************************************************************)
EXTENDS Integers, Sequences, FiniteSets, TLC

VARIABLES
    opts,        \* the slog.HandlerOptions given to NewHandler (AddSource, ReplaceAttr)
    handlers,    \* the Handler objects created so far; a *Handler is an index
    attrHeap,    \* backing arrays of the []slog.Attr slices
    groupHeap,   \* backing arrays of the []string slices
    born,        \* history: the attribute and group lists each handler was created with
    chain,       \* history: the WithAttrs/WithGroup calls that derived each handler
    ctx,         \* the request context: the entry stored under httpInfoKey, if any
    call,        \* the last call made: operation, receiver, arguments, result
    out,         \* the sink: the last line written by the JSON handler
    pc,          \* position of the pure-function harnesses
    arg,         \* their input
    res          \* their result

vars == <<opts, handlers, attrHeap, groupHeap, born, chain, ctx, call, out, pc, arg, res>>

(***************************************************************************)
(* Bounds of the model.                                                    *)
(***************************************************************************)
MaxHandlers == 3
MaxAttrs == 2
MaxLevel == 30
MaxHeader == 5
MaxGroups == 2

(***************************************************************************)
(* slog values and attributes.                                             *)
(***************************************************************************)
NoSource == [File |-> "", Line |-> 0, Function |-> ""]

StringValue(s) == [kind |-> "String", str |-> s, num |-> 0, grp |-> <<>>, src |-> NoSource]

Int64Value(n) == [kind |-> "Int64", str |-> "", num |-> n, grp |-> <<>>, src |-> NoSource]

\* slog.AnyValue of a slog.Level
LevelValue(l) == [kind |-> "Level", str |-> "", num |-> l, grp |-> <<>>, src |-> NoSource]

\* slog.AnyValue of a *slog.Source
SourceValue(s) == [kind |-> "Source", str |-> "", num |-> 0, grp |-> <<>>, src |-> s]

\* slog.TimeValue: an instant (0 is the zero time) and a location
TimeValue(instant, loc) == [kind |-> "Time", str |-> loc, num |-> instant, grp |-> <<>>, src |-> NoSource]

isEmptyGroup(v) == v.kind = "Group" /\ Len(v.grp) = 0

\* slog.GroupValue keeps the attributes that are not empty groups
GroupValue(as) ==
    [kind |-> "Group", str |-> "", num |-> 0,
     grp |-> SelectSeq(as, LAMBDA a : ~isEmptyGroup(a.Value)), src |-> NoSource]

attr(key, value) == [Key |-> key, Value |-> value]

String(key, s) == attr(key, StringValue(s))

(***************************************************************************)
(* level.go                                                                *)
(***************************************************************************)
LevelDebug == -4
LevelInfo == 0
LevelWarn == 4
LevelError == 8
LevelCritical == LevelError + 4 * (0 + 1)
LevelAlert == LevelError + 4 * (1 + 1)
LevelEmergency == LevelError + 4 * (2 + 1)
LevelNotice == (LevelInfo + LevelWarn) \div 2

severityForLevel_lt(l) ==
    CASE l < LevelDebug -> "DEBUG"
      [] l < LevelInfo -> "INFO"
      [] l < LevelNotice -> "NOTICE"
      [] l < LevelWarn -> "WARNING"
      [] l < LevelError -> "ERROR"
      [] l < LevelCritical -> "CRITICAL"
      [] l < LevelAlert -> "ALERT"
      [] OTHER -> "EMERGENCY"

severityForLevel(l) ==
    CASE l <= LevelDebug -> "DEBUG"
      [] l <= LevelInfo -> "INFO"
      [] l <= LevelNotice -> "NOTICE"
      [] l <= LevelWarn -> "WARNING"
      [] l <= LevelError -> "ERROR"
      [] l <= LevelCritical -> "CRITICAL"
      [] l <= LevelAlert -> "ALERT"
      [] OTHER -> "EMERGENCY"

(***************************************************************************)
(* attr.go                                                                 *)
(***************************************************************************)
\* args is the list of key/value pairs, as a sequence of <<k, v>>
RECURSIVE optionalStrings(_)
optionalStrings(args) ==
    IF Len(args) = 0 THEN <<>>
    ELSE LET k == Head(args)[1]
             v == Head(args)[2]
         IN (IF v # "" THEN <<String(k, v)>> ELSE <<>>) \o optionalStrings(Tail(args))

groupValue(args) == GroupValue(optionalStrings(args))

MessageKey == "message"

\* r.Attrs(func ...): the record's attributes whose key is not MessageKey
RECURSIVE recordAttrs(_)
recordAttrs(as) ==
    IF Len(as) = 0 THEN <<>>
    ELSE (IF Head(as).Key # MessageKey THEN <<Head(as)>> ELSE <<>>) \o recordAttrs(Tail(as))

\* for _, g := range groups { attrs = []slog.Attr{{Key: g, Value: GroupValue(attrs...)}} }
RECURSIVE wrapGroups(_, _)
wrapGroups(attrs, groups) ==
    IF Len(groups) = 0 THEN attrs
    ELSE wrapGroups(<<attr(Head(groups), GroupValue(attrs))>>, Tail(groups))

customAttrs_recordFirst(rattrs, attrs, groups) ==
    IF Len(attrs) + Len(rattrs) = 0 THEN <<>>
    ELSE wrapGroups(recordAttrs(rattrs) \o attrs, groups)

\* rattrs: the record's attributes; attrs: the handler's; groups: innermost first
customAttrs(rattrs, attrs, groups) ==
    IF Len(attrs) + Len(rattrs) = 0 THEN <<>>
    ELSE wrapGroups(attrs \o recordAttrs(rattrs), groups)

(***************************************************************************)
(* http.go                                                                 *)
(***************************************************************************)
\* strings.Index for a one-character separator: 0 when s does not contain it
RECURSIVE Index(_, _, _)
Index(s, sep, i) ==
    IF i > Len(s) THEN 0
    ELSE IF SubSeq(s, i, i) = sep THEN i
    ELSE Index(s, sep, i + 1)

\* strings.Cut: <<before, after, found>>
Cut(s, sep) ==
    LET i == Index(s, sep, 1)
    IN IF i = 0 THEN <<s, "", FALSE>>
       ELSE <<SubSeq(s, 1, i - 1), SubSeq(s, i + 1, Len(s)), TRUE>>

\* http.Header.Get: the first value of the header, "" when there is none
Get(header, name) == IF Len(header[name]) = 0 THEN "" ELSE header[name][1]

\* url.URL.String for a URL made of a path and a query
URLString(u) == u.Path \o (IF u.RawQuery # "" THEN "?" \o u.RawQuery ELSE "")

traceContext_noOptions(h) ==
    LET c == Cut(Get(h, "X-Cloud-Trace-Context"), "/")
    IN <<c[1], c[2]>>

\* <<trace, span>>
traceContext(h) ==
    LET s == Cut(Get(h, "X-Cloud-Trace-Context"), ";")[1]
        c == Cut(s, "/")
    IN <<c[1], c[2]>>

traceAttrs_noProjectCheck(projectID, trace, span) ==
    IF trace = "" THEN <<>>
    ELSE optionalStrings(<<
        <<"logging.googleapis.com/trace", "projects/" \o projectID \o "/traces/" \o trace>>,
        <<"logging.googleapis.com/spanId", span>> >>)

traceAttrs_noTraceCheck(projectID, trace, span) ==
    IF projectID = "" THEN <<>>
    ELSE optionalStrings(<<
        <<"logging.googleapis.com/trace", "projects/" \o projectID \o "/traces/" \o trace>>,
        <<"logging.googleapis.com/spanId", span>> >>)

traceAttrs(projectID, trace, span) ==
    IF projectID = "" \/ trace = "" THEN <<>>
    ELSE optionalStrings(<<
        <<"logging.googleapis.com/trace", "projects/" \o projectID \o "/traces/" \o trace>>,
        <<"logging.googleapis.com/spanId", span>> >>)

\* the *httpInfo that middleware.ServeHTTP stores in the request context
httpInfo(r) ==
    LET val == GroupValue(optionalStrings(<<
                   <<"requestMethod", r.Method>>,
                   <<"requestUrl", URLString(r.URL)>>,
                   <<"userAgent", Get(r.Header, "User-Agent")>>,
                   <<"remoteIp", r.RemoteAddr>>,
                   <<"referer", Get(r.Header, "Referer")>>,
                   <<"protocol", r.Proto>> >>))
        t == traceContext(r.Header)
    IN [req |-> val, trace |-> t[1], span |-> t[2]]

NoInfo == [req |-> GroupValue(<<>>), trace |-> "", span |-> ""]

\* a context without a value for httpInfoKey
Background == [has |-> FALSE, info |-> NoInfo]

\* context.WithValue(r.Context(), httpInfoKey, i)
WithValue(i) == [has |-> TRUE, info |-> i]

\* an httpAttrs that puts the trace attributes before the request's
httpAttrs_traceFirst(c, projectID) ==
    IF ~c.has THEN <<>>
    ELSE traceAttrs(projectID, c.info.trace, c.info.span) \o <<attr("httpRequest", c.info.req)>>

\* c: the context of the log call
httpAttrs(c, projectID) ==
    IF ~c.has THEN <<>>
    ELSE <<attr("httpRequest", c.info.req)>> \o traceAttrs(projectID, c.info.trace, c.info.span)

(***************************************************************************)
(* The other versions of the middleware that the sources hold.             *)
(***************************************************************************)
\* http.go 58-72: traceContext(h, projectID), which formats the trace itself
traceContextOfProject(h, projectID) ==
    IF projectID = "" THEN <<"", "">>
    ELSE LET s == Cut(Get(h, "X-Cloud-Trace-Context"), ";")[1]
             c == Cut(s, "/")
         IN IF c[1] = "" THEN <<"", "">>
            ELSE <<"projects/" \o projectID \o "/traces/" \o c[1], c[2]>>

\* http.go 39-56: httpAttrs of the version whose context holds the request
\* itself; req is the request as it is when the log call is made
httpAttrsOfRequest(req, projectID) ==
    LET val == groupValue(<<
                   <<"requestMethod", req.Method>>,
                   <<"requestUrl", URLString(req.URL)>>,
                   <<"userAgent", Get(req.Header, "User-Agent")>>,
                   <<"remoteIp", req.RemoteAddr>>,
                   <<"referer", Get(req.Header, "Referer")>>,
                   <<"protocol", req.Proto>> >>)
        t == traceContextOfProject(req.Header, projectID)
    IN <<attr("httpRequest", val)>>
       \o optionalStrings(<< <<"trace", t[1]>>, <<"spanId", t[2]>> >>)

\* unnamed/part_000 34-55: the *httpInfo of the version that always writes
\* the method, the URL and the protocol
httpInfoAlways(r) ==
    LET attrs == <<String("requestMethod", r.Method),
                   String("requestUrl", URLString(r.URL)),
                   String("protocol", r.Proto)>>
                 \o (IF r.RemoteAddr # "" THEN <<String("remoteIp", r.RemoteAddr)>> ELSE <<>>)
                 \o (IF Get(r.Header, "User-Agent") # ""
                     THEN <<String("userAgent", Get(r.Header, "User-Agent"))>> ELSE <<>>)
                 \o (IF Get(r.Header, "Referer") # ""
                     THEN <<String("referer", Get(r.Header, "Referer"))>> ELSE <<>>)
        s == Cut(Get(r.Header, "X-Cloud-Trace-Context"), ";")[1]
        c == Cut(s, "/")
    IN [req |-> GroupValue(attrs), trace |-> c[1], span |-> c[2]]

\* context.WithValue(r.Context(), httpRequestKey, r): r is request number i
WithRequest(i) == [has |-> TRUE, info |-> NoInfo, ptr |-> i]

\* the versions: the context holds the request (http.go 34-56), the
\* attributes computed on entry (http.go 111-133), or those of part_000
Builds == {"request", "info", "always"}

\* the context middleware.ServeHTTP gives the wrapped handler of request i
serveContext(build, reqs, i) ==
    CASE build = "request" -> WithRequest(i)
      [] build = "info" -> WithValue(httpInfo(reqs[i]))
      [] build = "always" -> WithValue(httpInfoAlways(reqs[i]))

\* httpAttrs(ctx, projectID) of the version, with the requests as they are
httpAttrsOf(build, reqs, c, projectID) ==
    IF build = "request"
    THEN IF c.has THEN httpAttrsOfRequest(reqs[c.ptr], projectID) ELSE <<>>
    ELSE httpAttrs(c, projectID)

(***************************************************************************)
(* handler.go: the rewriting of the built-in fields                        *)
(***************************************************************************)
TimestampKey == "timestamp"
SeverityKey == "severity"
TextPayloadKey == "textPayload"
SourceLocationKey == "sourceLocation"

\* strconv.Itoa of a non-negative number
RECURSIVE Itoa(_)
Itoa(n) ==
    IF n < 10 THEN SubSeq("0123456789", n + 1, n + 1)
    ELSE Itoa(n \div 10) \o SubSeq("0123456789", (n % 10) + 1, (n % 10) + 1)

\* slog.Group(""): the attribute a ReplaceAttr function returns to drop one
EmptyGroup == attr("", GroupValue(<<>>))

replaceAttr_anyDepth(groups, a) ==
    CASE a.Key = "time" -> attr(TimestampKey, a.Value)
      [] a.Key = "level" ->
            attr(SeverityKey, IF a.Value.kind = "Level"
                              THEN StringValue(severityForLevel(a.Value.num))
                              ELSE a.Value)
      [] a.Key = "msg" ->
            IF a.Value.kind # "String" \/ a.Value.str = "" THEN EmptyGroup
            ELSE attr(TextPayloadKey, a.Value)
      [] a.Key = "source" ->
            LET s == IF a.Value.kind = "Source" THEN a.Value.src ELSE NoSource
                line == IF s.Line > 0 THEN Itoa(s.Line) ELSE ""
            IN attr(SourceLocationKey,
                    groupValue(<< <<"file", s.File>>, <<"line", line>>,
                                  <<"function", s.Function>> >>))
      [] OTHER -> a

replaceAttr(groups, a) ==
    IF Len(groups) > 0 THEN a
    ELSE CASE a.Key = "time" -> attr(TimestampKey, a.Value)
           [] a.Key = "level" ->
                 attr(SeverityKey, IF a.Value.kind = "Level"
                                   THEN StringValue(severityForLevel(a.Value.num))
                                   ELSE a.Value)
           [] a.Key = "msg" ->
                 IF a.Value.kind # "String" \/ a.Value.str = "" THEN EmptyGroup
                 ELSE attr(TextPayloadKey, a.Value)
           [] a.Key = "source" ->
                 LET s == IF a.Value.kind = "Source" THEN a.Value.src ELSE NoSource
                     line == IF s.Line > 0 THEN Itoa(s.Line) ELSE ""
                 IN attr(SourceLocationKey,
                         groupValue(<< <<"file", s.File>>, <<"line", line>>,
                                       <<"function", s.Function>> >>))
           [] OTHER -> a

\* basicOpts.ReplaceAttr, the caller's functions: removeTime of
\* ExampleHandler, which drops the time the handler writes, one that gives
\* the severity another key and one that gives it another value
Repl(f, groups, a) ==
    CASE f = "removeTime" /\ a.Key = TimestampKey -> EmptyGroup
      [] f = "renameSeverity" /\ a.Key = SeverityKey -> attr("level", a.Value)
      [] f = "hideSeverity" /\ a.Key = SeverityKey -> attr(a.Key, StringValue("DEFAULT"))
      [] OTHER -> a

\* a composition that calls the caller's function first
jsonReplaceAttr_callerFirst(repl, groups, a) ==
    IF repl # "nil" THEN replaceAttr(groups, Repl(repl, groups, a)) ELSE replaceAttr(groups, a)

\* jsonOpts.ReplaceAttr as NewHandler composes it: replaceAttr, then the
\* caller's function repl when there is one
jsonReplaceAttr(repl, groups, a) ==
    LET a1 == replaceAttr(groups, a)
    IN IF repl # "nil" THEN Repl(repl, groups, a1) ELSE a1

(***************************************************************************)
(* The slog.JSONHandler that Handler.base points to.  A line is the        *)
(* sequence of the members of the JSON object it writes.                   *)
(***************************************************************************)
\* runtime.CallersFrames: the source location of a program counter
Frames(p) ==
    IF p = 0 THEN NoSource
    ELSE [File |-> "main.go", Line |-> 10 + p, Function |-> "main.serve"]

RECURSIVE appendAttr(_, _, _)
RECURSIVE appendAttrs(_, _, _)
\* the members written for attribute a inside the open groups, by a JSON
\* handler with options o
appendAttr(o, groups, a) ==
    LET a1 == IF a.Value.kind # "Group" THEN jsonReplaceAttr(o.ReplaceAttr, groups, a) ELSE a
    IN IF a1.Value.kind = "Group"
       THEN IF Len(a1.Value.grp) = 0 THEN <<>>
            ELSE IF a1.Key = "" THEN appendAttrs(o, groups, a1.Value.grp)
            ELSE <<attr(a1.Key, GroupValue(appendAttrs(o, groups \o <<a1.Key>>, a1.Value.grp)))>>
       ELSE <<a1>>

appendAttrs(o, groups, as) ==
    IF Len(as) = 0 THEN <<>>
    ELSE appendAttr(o, groups, Head(as)) \o appendAttrs(o, groups, Tail(as))

\* JSONHandler.Handle with options o: the built-in fields, then the record's
\* attributes
jsonHandleWith(o, s) ==
    (IF s.Time.num # 0 THEN appendAttr(o, <<>>, attr("time", s.Time)) ELSE <<>>)
    \o appendAttr(o, <<>>, attr("level", LevelValue(s.Level)))
    \o (IF o.AddSource
        THEN appendAttr(o, <<>>, attr("source", SourceValue(Frames(s.PC))))
        ELSE <<>>)
    \o appendAttr(o, <<>>, String("msg", s.Message))
    \o appendAttrs(o, <<>>, s.attrs)

\* h.base.Handle: the JSON handler that NewHandler made with opts
jsonHandle(s) == jsonHandleWith(opts, s)

(***************************************************************************)
(* Go slices.  A slice is a backing array (0: none) and a length; an array *)
(* is its capacity and the cells written so far.                           *)
(***************************************************************************)
NilSlice == [arr |-> 0, len |-> 0]

\* the elements a slice shows
View(heap, s) == IF s.arr = 0 THEN <<>> ELSE SubSeq(heap[s.arr].data, 1, s.len)

Cap(heap, s) == IF s.arr = 0 THEN 0 ELSE heap[s.arr].cap

\* the capacity append gives a new array (runtime.growslice, below 256 elements)
growslice(oldCap, needed) == IF needed > 2 * oldCap THEN needed ELSE 2 * oldCap

\* append(s, xs...): in place when the capacity allows, else into a new array
append(heap, s, xs) ==
    IF Len(xs) = 0 THEN [heap |-> heap, slice |-> s]
    ELSE IF s.len + Len(xs) <= Cap(heap, s)
    THEN LET d == heap[s.arr].data
             nd == SubSeq(d, 1, s.len) \o xs \o SubSeq(d, s.len + Len(xs) + 1, Len(d))
         IN [heap |-> [heap EXCEPT ![s.arr].data = nd],
             slice |-> [arr |-> s.arr, len |-> s.len + Len(xs)]]
    ELSE [heap |-> Append(heap, [cap |-> growslice(Cap(heap, s), s.len + Len(xs)),
                                 data |-> View(heap, s) \o xs]),
          slice |-> [arr |-> Len(heap) + 1, len |-> s.len + Len(xs)]]

\* slices.Clone(s): append(s[:0:0], s...)
slicesClone(heap, s) == append(heap, NilSlice, View(heap, s))

(***************************************************************************)
(* handler.go: Handler.  A world w is the handlers and the two heaps; an   *)
(* operation returns the world it leaves and the *Handler it returns.      *)
(***************************************************************************)
World == [handlers |-> handlers, attrHeap |-> attrHeap, groupHeap |-> groupHeap]

\* the handler's attributes and group names, read through its slices
Attrs(w, h) == View(w.attrHeap, w.handlers[h].attrs)

Groups(w, h) == View(w.groupHeap, w.handlers[h].groups)

\* a clone that returns the receiver instead of a copy
clone_alias(w, h) == [w |-> w, p |-> h]

clone(w, h) ==
    LET a == slicesClone(w.attrHeap, w.handlers[h].attrs)
        g == slicesClone(w.groupHeap, w.handlers[h].groups)
        r == [w.handlers[h] EXCEPT !.attrs = a.slice, !.groups = g.slice]
    IN [w |-> [handlers |-> Append(w.handlers, r), attrHeap |-> a.heap, groupHeap |-> g.heap],
        p |-> Len(w.handlers) + 1]

withAttrs(w, h, attrs) ==
    LET c == clone(w, h)
        a == append(c.w.attrHeap, c.w.handlers[c.p].attrs, attrs)
    IN [w |-> [c.w EXCEPT !.handlers[c.p].attrs = a.slice, !.attrHeap = a.heap],
        p |-> c.p]

\* a WithGroup that opens a group whatever the name
withGroup_anyName(w, h, name) ==
    LET c == clone(w, h)
        g == append(c.w.groupHeap, NilSlice, <<name>> \o Groups(c.w, c.p))
    IN [w |-> [c.w EXCEPT !.handlers[c.p].groups = g.slice, !.groupHeap = g.heap],
        p |-> c.p]

\* a WithGroup that adds the name after the groups, as the outermost
withGroup_outermost(w, h, name) ==
    IF name = "" THEN [w |-> w, p |-> h]
    ELSE LET c == clone(w, h)
             g == append(c.w.groupHeap, c.w.handlers[c.p].groups, <<name>>)
         IN [w |-> [c.w EXCEPT !.handlers[c.p].groups = g.slice, !.groupHeap = g.heap],
             p |-> c.p]

withGroup(w, h, name) ==
    IF name = "" THEN [w |-> w, p |-> h]
    ELSE LET c == clone(w, h)
             lit == append(c.w.groupHeap, NilSlice, <<name>>)
             g == append(lit.heap, lit.slice, View(lit.heap, c.w.handlers[c.p].groups))
         IN [w |-> [c.w EXCEPT !.handlers[c.p].groups = g.slice, !.groupHeap = g.heap],
             p |-> c.p]

\* jsonPayload(&r, h.attrs, h.groups), whose body the sources do not hold:
\* the attributes of the handler and of the record, folded under the
\* handler's groups and added to the record as its remaining attributes
jsonPayload(rattrs, attrs, groups) == customAttrs(rattrs, attrs, groups)

\* time.Time.UTC
UTC(t) == TimeValue(t.num, "UTC")

\* the record Handle hands to h.base.Handle, for a handler with these
\* attributes, groups and project
handleRecord(attrs, groups, projectID, c, r) ==
    LET hasJSONPayload == Len(attrs) + Len(r.attrs) > 0
        textPayload == IF ~hasJSONPayload THEN r.Message ELSE ""
    IN [Time |-> UTC(r.Time), Level |-> r.Level, Message |-> textPayload, PC |-> r.PC,
        attrs |-> httpAttrs(c, projectID)
                  \o (IF hasJSONPayload THEN jsonPayload(r.attrs, attrs, groups) ELSE <<>>)]

\* the line Handle writes
handle(w, h, c, r) ==
    jsonHandle(handleRecord(Attrs(w, h), Groups(w, h), w.handlers[h].projectID, c, r))

\* h.base.Handle(ctx, s) on a sink whose Write returns werr: the line that
\* reaches the sink and the error the JSON handler returns
baseHandle(s, werr) ==
    [line |-> IF werr = "nil" THEN jsonHandle(s) ELSE <<>>, err |-> werr]

\* a Handle that tries once more when the sink fails, and reports success
handleCall_retry(w, h, c, r, werr) ==
    LET s == handleRecord(Attrs(w, h), Groups(w, h), w.handlers[h].projectID, c, r)
        b == baseHandle(s, werr)
    IN IF b.err = "nil" THEN [forwarded |-> 1, line |-> b.line, err |-> "nil"]
       ELSE [forwarded |-> 2, line |-> baseHandle(s, "nil").line, err |-> "nil"]

\* Handler.Handle: how many records it hands to h.base.Handle, the line
\* written and the error it returns
handleCall(w, h, c, r, werr) ==
    LET b == baseHandle(handleRecord(Attrs(w, h), Groups(w, h), w.handlers[h].projectID, c, r),
                        werr)
    IN [forwarded |-> 1, line |-> b.line, err |-> b.err]

(***************************************************************************)
(* The inputs of the calls.                                                *)
(***************************************************************************)
\* the lists of at most n attributes of S with no attribute twice
ListsOf(S, n) ==
    {l \in UNION {[1..k -> S] : k \in 0..n} : \A i, j \in DOMAIN l : i # j => l[i] # l[j]}

\* attributes given to WithAttrs
HandlerAttrs == {attr("a", Int64Value(1)), String("time", "t")}

\* attributes of the records logged
RecordAttrs == {attr("c", Int64Value(3)), String("d", "y"), String("message", "m")}

GroupNames == {"", "g", "k"}

Projects == {"", "test"}

\* what NewHandler is given: &slog.HandlerOptions{AddSource: true} and
\* &Options{ProjectID: "test"}
Configs == {[AddSource |-> TRUE, ProjectID |-> "test"]}

\* a record logged at Warn+1 from a known program counter, with a local time
Stamped(m, as) ==
    [Time |-> TimeValue(7, "Local"), Level |-> LevelWarn + 1, Message |-> m, PC |-> 1,
     attrs |-> as]

\* a record with the zero time and no program counter
NoRecord == [Time |-> TimeValue(0, "UTC"), Level |-> LevelInfo, Message |-> "", PC |-> 0,
             attrs |-> <<>>]

Records ==
    {Stamped(m, as) : m \in {"", "hi"}, as \in ListsOf(RecordAttrs, MaxAttrs)}
    \cup {[NoRecord EXCEPT !.Message = "hi"]}

\* what the sink's Write returns
WriteErrors == {"nil", "EIO"}

HeaderNames == {"X-Cloud-Trace-Context", "User-Agent", "Referer"}

NoHeader == [n \in HeaderNames |-> <<>>]

\* the request of ExampleMiddleware, as the test server receives it
Request ==
    [Method |-> "GET", URL |-> [Path |-> "/", RawQuery |-> ""],
     Header |-> [NoHeader EXCEPT !["X-Cloud-Trace-Context"] = <<"abc/123;o=1">>,
                                 !["User-Agent"] = <<"Go-http-client/1.1">>],
     RemoteAddr |-> "127.0.0.1:80", Proto |-> "HTTP/1.1"]

\* the contexts a log call is made with: none of a request, or a request's
Contexts == {Background, WithValue(httpInfo(Request))}

\* sink: what the sink's Write returned; forwarded: the records handed to the
\* JSON handler
Idle == [op |-> "", h |-> 0, p |-> 0, attrs |-> <<>>, name |-> "",
         c |-> Background, rec |-> NoRecord, err |-> "nil", sink |-> "nil", forwarded |-> 0]

(***************************************************************************)
(* The handler as a state machine: NewHandler, then any sequence of        *)
(* WithAttrs, WithGroup and Handle calls.  call is the call being made     *)
(* and out what it wrote to the sink; Return gives control back.           *)
(***************************************************************************)
Init ==
    /\ \E cf \in Configs :
          /\ opts = [AddSource |-> cf.AddSource, ReplaceAttr |-> "nil"]
          /\ handlers = <<[projectID |-> cf.ProjectID, attrs |-> NilSlice, groups |-> NilSlice]>>
    /\ attrHeap = <<>>
    /\ groupHeap = <<>>
    /\ born = <<[attrs |-> <<>>, groups |-> <<>>, projectID |-> handlers[1].projectID]>>
    /\ chain = << <<>> >>
    /\ ctx = Background
    /\ call = [Idle EXCEPT !.op = "NewHandler", !.p = 1]
    /\ out = <<>>
    /\ pc = "run"
    /\ arg = 0
    /\ res = 0

\* the world a derivation leaves, and the history of the handler it made
Derived(r, h, step) ==
    /\ handlers' = r.w.handlers
    /\ attrHeap' = r.w.attrHeap
    /\ groupHeap' = r.w.groupHeap
    /\ born' = IF Len(r.w.handlers) > Len(handlers)
               THEN Append(born, [attrs |-> Attrs(r.w, r.p), groups |-> Groups(r.w, r.p),
                                  projectID |-> r.w.handlers[r.p].projectID])
               ELSE born
    /\ chain' = IF Len(r.w.handlers) > Len(handlers)
                THEN Append(chain, Append(chain[h], step))
                ELSE chain

WithAttrs ==
    \E h \in 1..Len(handlers), as \in ListsOf(HandlerAttrs, MaxAttrs) :
       /\ pc = "run"
       /\ Len(handlers) < MaxHandlers
       /\ LET r == withAttrs(World, h, as)
          IN /\ Derived(r, h, [op |-> "WithAttrs", attrs |-> as, name |-> ""])
             /\ call' = [Idle EXCEPT !.op = "WithAttrs", !.h = h, !.p = r.p, !.attrs = as]
       /\ out' = <<>>
       /\ pc' = "derived"
       /\ UNCHANGED <<opts, ctx, arg, res>>

WithGroup ==
    \E h \in 1..Len(handlers), name \in GroupNames :
       /\ pc = "run"
       /\ Len(handlers) < MaxHandlers
       /\ LET r == withGroup(World, h, name)
          IN /\ Derived(r, h, [op |-> "WithGroup", attrs |-> <<>>, name |-> name])
             /\ call' = [Idle EXCEPT !.op = "WithGroup", !.h = h, !.p = r.p, !.name = name]
       /\ out' = <<>>
       /\ pc' = "derived"
       /\ UNCHANGED <<opts, ctx, arg, res>>

\* h.Handle(c, r) on a sink whose Write returns werr
HandleOn(h, c, r, werr) ==
       /\ pc = "run"
       /\ LET x == handleCall(World, h, c, r, werr)
          IN /\ out' = x.line
             /\ call' = [Idle EXCEPT !.op = "Handle", !.h = h, !.c = c, !.rec = r,
                                     !.sink = werr, !.err = x.err, !.forwarded = x.forwarded]
       /\ pc' = "logged"
       /\ UNCHANGED <<opts, handlers, attrHeap, groupHeap, born, chain, ctx, arg, res>>

\* Handle on a sink that takes every write
Handle ==
    \E h \in 1..Len(handlers), r \in Records, c \in Contexts : HandleOn(h, c, r, "nil")

\* the call returns to its caller, which may then make the next
Return ==
    /\ pc \in {"logged", "derived"}
    /\ pc' = "run"
    /\ call' = Idle
    /\ out' = <<>>
    /\ UNCHANGED <<opts, handlers, attrHeap, groupHeap, born, chain, ctx, arg, res>>

Next == WithAttrs \/ WithGroup \/ Handle \/ Return

Spec == Init /\ [][Next]_vars

(***************************************************************************)
(* The handler on a sink whose writes may fail.                            *)
(***************************************************************************)
SinkRecords == {Stamped("hi", <<>>), Stamped("hi", <<attr("c", Int64Value(3))>>)}

HandleSink ==
    \E h \in 1..Len(handlers), r \in SinkRecords, c \in Contexts, werr \in WriteErrors :
       HandleOn(h, c, r, werr)

NextSink == WithAttrs \/ WithGroup \/ HandleSink \/ Return

SpecSink == Init /\ [][NextSink]_vars

(***************************************************************************)
(* The handler made with a ReplaceAttr function of the caller.             *)
(***************************************************************************)
Hooks == {"removeTime", "renameSeverity", "hideSeverity"}

\* NewHandler(w, &slog.HandlerOptions{AddSource: true, ReplaceAttr: ..},
\* &Options{ProjectID: "test"})
InitHook ==
    /\ opts \in [AddSource : {TRUE}, ReplaceAttr : Hooks]
    /\ handlers = <<[projectID |-> "test", attrs |-> NilSlice, groups |-> NilSlice]>>
    /\ attrHeap = <<>>
    /\ groupHeap = <<>>
    /\ born = <<[attrs |-> <<>>, groups |-> <<>>, projectID |-> "test"]>>
    /\ chain = << <<>> >>
    /\ ctx = Background
    /\ call = [Idle EXCEPT !.op = "NewHandler", !.p = 1]
    /\ out = <<>>
    /\ pc = "run"
    /\ arg = 0
    /\ res = 0

NextHook == WithAttrs \/ Handle \/ Return

SpecHook == InitHook /\ [][NextHook]_vars

(***************************************************************************)
(* Concurrent callers on shared handlers.  Each call is made of the steps  *)
(* of its code that read or write storage: WithAttrs and WithGroup clone,  *)
(* then extend a list of the clone, then return it; Handle lets            *)
(* customAttrs build the attributes in storage, then reads them and        *)
(* writes the line.  arg holds what each caller is doing; res the handlers *)
(* that have been returned to the callers (pub) and whether a step wrote   *)
(* to storage that a handler other than the one being built refers to      *)
(* (raced).                                                                *)
(***************************************************************************)
Callers == {1, 2}

\* a customAttrs that appends the record's attributes to the handler's slice
foldStorage_noClone(heap, s, rattrs) == append(heap, s, recordAttrs(rattrs))

\* customAttrs, attr.go 94-100: the storage that holds the handler's
\* attributes followed by the record's, slices.Grow(slices.Clone(attrs), n)
\* then append
foldStorage(heap, s, rattrs) ==
    LET c == slicesClone(heap, s)
    IN append(c.heap, c.slice, recordAttrs(rattrs))

NoFold == [private |-> TRUE, data |-> <<>>, slice |-> NilSlice, groups |-> <<>>, n |-> 0]

NoCall == [pc |-> "idle", op |-> "", h |-> 0, r |-> 0, attrs |-> <<>>, name |-> "",
           fold |-> NoFold]

\* the derivations the callers make
RaceSteps ==
    {[op |-> "WithAttrs", attrs |-> as, name |-> ""] :
        as \in {<<attr("a", Int64Value(1))>>, <<attr("a", Int64Value(1)), String("time", "t")>>}}
    \cup {[op |-> "WithGroup", attrs |-> <<>>, name |-> n] : n \in {"", "g"}}

\* the record each caller logs
RaceRecord(p) ==
    IF p = 1 THEN Stamped("hi", <<attr("c", Int64Value(3))>>)
    ELSE Stamped("hi", <<String("d", "y")>>)

InitRace ==
    /\ opts = [AddSource |-> FALSE, ReplaceAttr |-> "nil"]
    /\ handlers = <<[projectID |-> "test", attrs |-> NilSlice, groups |-> NilSlice]>>
    /\ attrHeap = <<>>
    /\ groupHeap = <<>>
    /\ born = <<[attrs |-> <<>>, groups |-> <<>>, projectID |-> "test"]>>
    /\ chain = << <<>> >>
    /\ ctx = Background
    /\ call = [Idle EXCEPT !.op = "NewHandler", !.p = 1]
    /\ out = <<>>
    /\ pc = "race"
    /\ arg = [p \in Callers |-> NoCall]
    /\ res = [pub |-> {1}, raced |-> FALSE]

\* a handler other than r refers to backing array x of attributes
ReadableByOther(hs, r, x) ==
    x # 0 /\ \E k \in 1..Len(hs) : k # r /\ hs[k].attrs.arr = x

\* caller p calls WithAttrs or WithGroup on a handler it was given:
\* WithGroup("") returns the receiver, the others clone it
Clone ==
    \E p \in Callers, h \in res.pub, step \in RaceSteps :
       /\ arg[p].pc = "idle"
       /\ Len(handlers) < MaxHandlers
       /\ IF step.op = "WithGroup" /\ step.name = ""
          THEN /\ arg' = [arg EXCEPT ![p] = [NoCall EXCEPT !.pc = "derived", !.op = step.op,
                                                           !.h = h, !.r = h]]
               /\ UNCHANGED <<handlers, attrHeap, groupHeap, born, chain>>
          ELSE LET c == clone(World, h)
               IN /\ handlers' = c.w.handlers
                  /\ attrHeap' = c.w.attrHeap
                  /\ groupHeap' = c.w.groupHeap
                  /\ arg' = [arg EXCEPT ![p] = [NoCall EXCEPT !.pc = "cloned", !.op = step.op,
                                                              !.h = h, !.r = c.p,
                                                              !.attrs = step.attrs,
                                                              !.name = step.name]]
                  /\ born' = IF c.p > Len(born)
                             THEN Append(born, [attrs |-> Attrs(c.w, c.p),
                                                groups |-> Groups(c.w, c.p),
                                                projectID |-> c.w.handlers[c.p].projectID])
                             ELSE born
                  /\ chain' = IF c.p > Len(chain) THEN Append(chain, Append(chain[h], step))
                              ELSE chain
       /\ UNCHANGED <<opts, ctx, call, out, pc, res>>

\* caller p extends a list of its clone: r.attrs = append(r.attrs, attrs...)
\* or r.groups = append([]string{name}, r.groups...)
Extend ==
    \E p \in Callers :
       /\ arg[p].pc = "cloned"
       /\ LET r == arg[p].r
              a == append(attrHeap, handlers[r].attrs, arg[p].attrs)
              lit == append(groupHeap, NilSlice, <<arg[p].name>>)
              g == append(lit.heap, lit.slice, View(lit.heap, handlers[r].groups))
              w == IF arg[p].op = "WithAttrs"
                   THEN [World EXCEPT !.handlers[r].attrs = a.slice, !.attrHeap = a.heap]
                   ELSE [World EXCEPT !.handlers[r].groups = g.slice, !.groupHeap = g.heap]
          IN /\ handlers' = w.handlers
             /\ attrHeap' = w.attrHeap
             /\ groupHeap' = w.groupHeap
             /\ born' = [born EXCEPT ![r] = [@ EXCEPT !.attrs = Attrs(w, r),
                                                      !.groups = Groups(w, r)]]
             /\ res' = [res EXCEPT !.raced =
                           @ \/ (arg[p].op = "WithAttrs" /\ Len(arg[p].attrs) > 0
                                 /\ ReadableByOther(handlers, r, a.slice.arr))]
       /\ arg' = [arg EXCEPT ![p].pc = "derived"]
       /\ UNCHANGED <<opts, chain, ctx, call, out, pc>>

\* the call of caller p returns its handler, which every caller may now use
Publish ==
    \E p \in Callers :
       /\ arg[p].pc = "derived"
       /\ res' = [res EXCEPT !.pub = @ \cup {arg[p].r}]
       /\ arg' = [arg EXCEPT ![p] = NoCall]
       /\ UNCHANGED <<opts, handlers, attrHeap, groupHeap, born, chain, ctx, call, out, pc>>

\* caller p calls Handle on a handler it was given: customAttrs puts the
\* attributes of the handler and of the record in storage
Fold ==
    \E p \in Callers, h \in res.pub :
       /\ arg[p].pc = "idle"
       /\ LET f == foldStorage(attrHeap, handlers[h].attrs, RaceRecord(p).attrs)
              fresh == f.slice.arr = 0 \/ f.slice.arr > Len(attrHeap)
          IN /\ attrHeap' = IF fresh THEN attrHeap ELSE f.heap
             /\ arg' = [arg EXCEPT ![p] =
                           [NoCall EXCEPT !.pc = "folded", !.op = "Handle", !.h = h,
                               !.fold = [private |-> fresh,
                                         data |-> IF fresh THEN View(f.heap, f.slice) ELSE <<>>,
                                         slice |-> IF fresh THEN NilSlice ELSE f.slice,
                                         groups |-> Groups(World, h),
                                         n |-> handlers[h].attrs.len]]]
             /\ res' = [res EXCEPT !.raced = @ \/ ~fresh]
       /\ UNCHANGED <<opts, handlers, groupHeap, born, chain, ctx, call, out, pc>>

\* Handle of caller p reads the attributes back, wraps them in the groups
\* and hands the record to the JSON handler, which writes the line
Emit ==
    \E p \in Callers :
       /\ arg[p].pc = "folded"
       /\ LET f == arg[p].fold
              r == RaceRecord(p)
              read == IF f.private THEN f.data ELSE View(attrHeap, f.slice)
              s == handleRecord(<<>>, <<>>, handlers[arg[p].h].projectID, Background, r)
              hasJSONPayload == f.n + Len(r.attrs) > 0
          IN /\ out' = jsonHandle([s EXCEPT !.Message = IF hasJSONPayload THEN "" ELSE r.Message,
                                            !.attrs = IF hasJSONPayload
                                                      THEN wrapGroups(read, f.groups) ELSE <<>>])
             /\ call' = [Idle EXCEPT !.op = "Handle", !.h = arg[p].h, !.p = p, !.rec = r,
                                     !.forwarded = 1]
       /\ arg' = [arg EXCEPT ![p] = NoCall]
       /\ UNCHANGED <<opts, handlers, attrHeap, groupHeap, born, chain, ctx, pc, res>>

NextRace == Clone \/ Extend \/ Publish \/ Fold \/ Emit

SpecRace == InitRace /\ [][NextRace]_vars

(***************************************************************************)
(* The pure functions, each applied to inputs drawn by its own Init.       *)
(***************************************************************************)
\* the variables of the handler machine, which these leave alone
Quiet ==
    /\ opts = [AddSource |-> FALSE, ReplaceAttr |-> "nil"]
    /\ handlers = <<>>
    /\ attrHeap = <<>>
    /\ groupHeap = <<>>
    /\ born = <<>>
    /\ chain = <<>>
    /\ ctx = Background
    /\ call = Idle
    /\ out = <<>>

machine == <<opts, handlers, attrHeap, groupHeap, born, chain, ctx, call, out>>

\* severityForLevel on every level from -MaxLevel to MaxLevel
InitLevel ==
    /\ Quiet
    /\ pc = "level"
    /\ arg \in -MaxLevel..MaxLevel
    /\ res = ""

SeverityForLevel ==
    /\ pc = "level"
    /\ res' = severityForLevel(arg)
    /\ pc' = "severity"
    /\ UNCHANGED <<machine, arg>>

NextLevel == SeverityForLevel

SpecLevel == InitLevel /\ [][NextLevel]_vars

\* the strings of at most n characters of alphabet A
RECURSIVE Strings(_, _)
Strings(A, n) ==
    IF n = 0 THEN {""} ELSE {""} \cup {c \o s : c \in A, s \in Strings(A, n - 1)}

\* the X-Cloud-Trace-Context headers of a request: none, or one value
TraceHeaders == {<<>>} \cup {<<v>> : v \in Strings({"a", "b", "/", ";"}, MaxHeader)}

\* traceContext on a request's header, then traceAttrs on what it found
InitTrace ==
    /\ Quiet
    /\ pc = "header"
    /\ arg \in [header : {[NoHeader EXCEPT !["X-Cloud-Trace-Context"] = v] : v \in TraceHeaders},
                projectID : Projects]
    /\ res = [trace |-> "", span |-> "", attrs |-> <<>>]

TraceContext ==
    /\ pc = "header"
    /\ LET t == traceContext(arg.header)
       IN res' = [res EXCEPT !.trace = t[1], !.span = t[2]]
    /\ pc' = "context"
    /\ UNCHANGED <<machine, arg>>

TraceAttrs ==
    /\ pc = "context"
    /\ res' = [res EXCEPT !.attrs = traceAttrs(arg.projectID, res.trace, res.span)]
    /\ pc' = "attrs"
    /\ UNCHANGED <<machine, arg>>

NextTrace == TraceContext \/ TraceAttrs

SpecTrace == InitTrace /\ [][NextTrace]_vars

\* the sequences of at most n elements of S
SeqsUpTo(S, n) == UNION {[1..k -> S] : k \in 0..n}

\* customAttrs on handler attributes P, record attributes R and groups G
InitFold ==
    /\ Quiet
    /\ pc = "fold"
    /\ arg \in [P : SeqsUpTo(HandlerAttrs \cup RecordAttrs, MaxAttrs),
                R : SeqsUpTo(HandlerAttrs \cup RecordAttrs, MaxAttrs),
                G : SeqsUpTo(GroupNames \ {""}, MaxGroups)]
    /\ res = <<>>

CustomAttrs ==
    /\ pc = "fold"
    /\ res' = customAttrs(arg.R, arg.P, arg.G)
    /\ pc' = "folded"
    /\ UNCHANGED <<machine, arg>>

NextFold == CustomAttrs

SpecFold == InitFold /\ [][NextFold]_vars

(***************************************************************************)
(* The middleware: two requests in flight at once, each served by          *)
(* middleware.ServeHTTP; the wrapped handlers log with their request's    *)
(* context through one handler, and the first changes its request.  arg holds the     *)
(* version, the requests as they are now (reqs) and the method of the copy *)
(* each wrapped handler was given; ctx the context of each wrapped         *)
(* handler; res the requests as they were when the middleware ran.         *)
(***************************************************************************)
\* the requests the server is given
Requests ==
    {[Method |-> m, URL |-> [Path |-> u, RawQuery |-> ""],
      Header |-> [NoHeader EXCEPT !["X-Cloud-Trace-Context"] = t,
                                  !["User-Agent"] = ua, !["Referer"] = ref],
      RemoteAddr |-> ra, Proto |-> pr] :
        m \in {"", "GET"}, u \in {"", "/"}, t \in {<<>>, <<"abc/123;o=1">>},
        ua \in {<<>>, <<"curl">>}, ref \in {<<>>, <<"ref">>},
        ra \in {"", "127.0.0.1:80"}, pr \in {"", "HTTP/1.1"}}

\* the request that is in flight next to it
OtherRequest ==
    [Method |-> "POST", URL |-> [Path |-> "/b", RawQuery |-> "q"],
     Header |-> [NoHeader EXCEPT !["X-Cloud-Trace-Context"] = <<"f/9">>,
                                 !["User-Agent"] = <<"wget">>],
     RemoteAddr |-> "10.0.0.2:80", Proto |-> "HTTP/2.0"]

\* the records the wrapped handlers log
LogRecords == {[NoRecord EXCEPT !.Message = "hi"], Stamped("hi", <<attr("c", Int64Value(3))>>)}

\* the line a log call writes through handler h in this version
logLine(build, reqs, w, h, c, r) ==
    LET s == handleRecord(Attrs(w, h), Groups(w, h), w.handlers[h].projectID, Background, r)
    IN jsonHandle([s EXCEPT !.attrs =
                      httpAttrsOf(build, reqs, c, w.handlers[h].projectID) \o @])

InitHTTP ==
    /\ opts = [AddSource |-> FALSE, ReplaceAttr |-> "nil"]
    /\ \E project \in Projects :
          /\ handlers = <<[projectID |-> project, attrs |-> NilSlice, groups |-> NilSlice]>>
          /\ born = <<[attrs |-> <<>>, groups |-> <<>>, projectID |-> project]>>
    /\ attrHeap = <<>>
    /\ groupHeap = <<>>
    /\ chain = << <<>> >>
    /\ ctx = <<Background, Background>>
    /\ call = [Idle EXCEPT !.op = "NewHandler", !.p = 1]
    /\ out = <<>>
    /\ pc = "run"
    /\ arg \in [build : Builds, reqs : {<<r, OtherRequest>> : r \in Requests},
                method : {<<"", "">>}]
    /\ res = <<NoRecord, NoRecord>>

\* middleware.ServeHTTP receives request i and calls the wrapped handler
\* with r.WithContext(ctx), a copy of the request that shares its URL and
\* its header
ServeHTTP ==
    \E i \in 1..2 :
       /\ pc = "run"
       /\ ~ctx[i].has
       /\ ctx' = [ctx EXCEPT ![i] = serveContext(arg.build, arg.reqs, i)]
       /\ arg' = [arg EXCEPT !.method[i] = arg.reqs[i].Method]
       /\ res' = [res EXCEPT ![i] = arg.reqs[i]]
       /\ call' = [Idle EXCEPT !.op = "ServeHTTP", !.p = i]
       /\ out' = <<>>
       /\ UNCHANGED <<opts, handlers, attrHeap, groupHeap, born, chain, pc>>

\* the wrapped handler of the first request sets r.Method, of its copy
SetMethod ==
    \E i \in {1} :
       /\ pc = "run"
       /\ ctx[i].has
       /\ arg.method[i] # "PUT"
       /\ arg' = [arg EXCEPT !.method[i] = "PUT"]
       /\ UNCHANGED <<opts, handlers, attrHeap, groupHeap, born, chain, ctx, call, out, pc, res>>

\* the wrapped handler of the first request sets r.URL.Path, of the shared URL
SetPath ==
    \E i \in {1} :
       /\ pc = "run"
       /\ ctx[i].has
       /\ arg.reqs[i].URL.Path # "/x"
       /\ arg' = [arg EXCEPT !.reqs[i].URL.Path = "/x"]
       /\ UNCHANGED <<opts, handlers, attrHeap, groupHeap, born, chain, ctx, call, out, pc, res>>

\* the wrapped handler of the first request calls r.Header.Set, on the shared header
SetHeader ==
    \E i \in {1} :
       /\ pc = "run"
       /\ ctx[i].has
       /\ arg.reqs[i].Header["X-Cloud-Trace-Context"] # <<"e/7">>
       /\ arg' = [arg EXCEPT !.reqs[i].Header["X-Cloud-Trace-Context"] = <<"e/7">>]
       /\ UNCHANGED <<opts, handlers, attrHeap, groupHeap, born, chain, ctx, call, out, pc, res>>

\* a log call with the context of request i, or with one of no request (0)
Log ==
    \E i \in 0..2, r \in LogRecords :
       /\ pc = "run"
       /\ i > 0 => ctx[i].has
       /\ LET c == IF i = 0 THEN Background ELSE ctx[i]
          IN /\ out' = logLine(arg.build, arg.reqs, World, 1, c, r)
             /\ call' = [Idle EXCEPT !.op = "Handle", !.h = 1, !.p = i, !.c = c, !.rec = r,
                                     !.forwarded = 1]
       /\ pc' = "logged"
       /\ UNCHANGED <<opts, handlers, attrHeap, groupHeap, born, chain, ctx, arg, res>>

NextHTTP == ServeHTTP \/ SetMethod \/ SetPath \/ SetHeader \/ Log \/ Return

SpecHTTP == InitHTTP /\ [][NextHTTP]_vars

(***************************************************************************)
(* Properties of the severity mapping (SpecLevel).                         *)
(***************************************************************************)
NamedLevels ==
    << <<-4, "DEBUG">>, <<0, "INFO">>, <<2, "NOTICE">>, <<4, "WARNING">>, <<8, "ERROR">>,
       <<12, "CRITICAL">>, <<16, "ALERT">> >>

\* the name of the first named level that is >= l, EMERGENCY when there is none
LowestNamedAtOrAbove(l) ==
    LET S == {i \in 1..Len(NamedLevels) : NamedLevels[i][1] >= l}
    IN IF S = {} THEN "EMERGENCY"
       ELSE NamedLevels[CHOOSE i \in S : \A j \in S : i <= j][2]

SeverityRank(n) ==
    IF n = "EMERGENCY" THEN Len(NamedLevels) + 1
    ELSE CHOOSE i \in 1..Len(NamedLevels) : NamedLevels[i][2] = n

\* C7: severity(L) is the name of the first of Debug(-4), Info(0), Notice(2),
\* Warn(4), Error(8), Critical(12), Alert(16) whose threshold is >= L, and
\* EMERGENCY above Alert; Notice is the midpoint of Info and Warn; every level
\* in (Warn, Error] maps to ERROR; severity is non-decreasing in L.
C7_SeverityIsLowestNamedAtOrAbove ==
    pc = "severity" =>
       /\ res = LowestNamedAtOrAbove(arg)
       /\ 2 * LevelNotice = LevelInfo + LevelWarn
       /\ (LevelWarn < arg /\ arg <= LevelError => res = "ERROR")
       /\ SeverityRank(severityForLevel(arg - 1)) <= SeverityRank(res)

\* the level of TestHandler_level, LevelWarn+1, has been mapped
C7_Witness == pc = "severity" /\ arg = LevelWarn + 1 /\ res = "ERROR"

(***************************************************************************)
(* Properties of the trace header and the trace attributes (SpecTrace).    *)
(***************************************************************************)
\* the place of the first c in s, Len(s) + 1 when s holds none
FirstAt(s, c) ==
    LET S == {i \in 1..Len(s) : SubSeq(s, i, i) = c}
    IN IF S = {} THEN Len(s) + 1 ELSE CHOOSE i \in S : \A j \in S : i <= j

\* s from place m to place n, "" when there is nothing between them
Between(s, m, n) == IF m > n THEN "" ELSE SubSeq(s, m, n)

\* the value of the header given to traceContext, "" when it is absent
HeaderValue ==
    IF Len(arg.header["X-Cloud-Trace-Context"]) = 0 THEN ""
    ELSE arg.header["X-Cloud-Trace-Context"][1]

\* the part of the header that precedes the first ';'
BeforeOptions == Between(HeaderValue, 1, FirstAt(HeaderValue, ";") - 1)

C9_TraceContext ==
    pc # "header" =>
       /\ res.trace = Between(BeforeOptions, 1, FirstAt(BeforeOptions, "/") - 1)
       /\ res.span = Between(BeforeOptions, FirstAt(BeforeOptions, "/") + 1, Len(BeforeOptions))
       /\ (Len(arg.header["X-Cloud-Trace-Context"]) = 0 => res.trace = "" /\ res.span = "")

\* a header with a trace, a span and options has been read
C9_Witness ==
    /\ pc = "context"
    /\ arg.header["X-Cloud-Trace-Context"] = <<"a/b;a">>
    /\ res.trace = "a" /\ res.span = "b"

\* the header lacks the TRACE_ID/SPAN_ID shape: no '/' before the options,
\* or nothing before the '/'
Malformed ==
    \/ FirstAt(BeforeOptions, "/") > Len(BeforeOptions)
    \/ FirstAt(BeforeOptions, "/") = 1

\* C10 as claimed: a malformed header gives an empty trace id and an empty
\* span id.
C10_MalformedGivesEmptyIds ==
    pc # "header" /\ Malformed => res.trace = "" /\ res.span = ""

\* C10 as amended: without a '/' the trace id is the whole part before the
\* options and the span id is empty; with nothing before the '/' the trace
\* id is empty and the span id is the text after the '/'; both are empty only
\* for an empty part or "/"; and an empty trace id gives no trace attribute.
C10_MalformedDegrades ==
    pc # "header" =>
       /\ (FirstAt(BeforeOptions, "/") > Len(BeforeOptions) =>
              res.trace = BeforeOptions /\ res.span = "")
       /\ (FirstAt(BeforeOptions, "/") = 1 =>
              res.trace = "" /\ res.span = Between(BeforeOptions, 2, Len(BeforeOptions)))
       /\ (res.trace = "" /\ res.span = "" <=> BeforeOptions \in {"", "/"})
       /\ (pc = "attrs" /\ res.trace = "" => res.attrs = <<>>)

\* a header with nothing before its '/' has been read for a known project
C10_Witness ==
    /\ pc = "attrs"
    /\ arg.projectID = "test"
    /\ arg.header["X-Cloud-Trace-Context"] = <<"/b">>
    /\ res.trace = "" /\ res.span = "b" /\ res.attrs = <<>>

(***************************************************************************)
(* Properties of the fold (SpecFold).                                      *)
(***************************************************************************)
Unreadable == <<attr("!", StringValue("not the nested path"))>>

\* what is read back from as along the groups G (innermost first)
RECURSIVE Unfold(_, _)
Unfold(as, G) ==
    IF Len(G) = 0 THEN as
    ELSE IF Len(as) = 0 THEN <<>>
    ELSE IF Len(as) = 1 /\ as[1].Key = G[Len(G)] /\ as[1].Value.kind = "Group"
    THEN Unfold(as[1].Value.grp, SubSeq(G, 1, Len(G) - 1))
    ELSE Unreadable

\* C4 as claimed: reading the fold back along G gives the attributes of P
\* followed by those of R, whatever their keys; nothing for empty P, R and G.
C4_FoldKeepsEveryAttribute ==
    pc = "folded" =>
       /\ Unfold(res, arg.G) = arg.P \o arg.R
       /\ (Len(arg.P) + Len(arg.R) + Len(arg.G) = 0 => res = <<>>)

\* C4 as amended: reading the fold back along G gives the attributes of P
\* followed by those of R whose key is not "message", each once and
\* unchanged; the attributes of R keyed "message" are dropped; nothing is
\* yielded for empty P, R and G.
C4_FoldKeepsAllButMessage ==
    pc = "folded" =>
       /\ Unfold(res, arg.G) = arg.P \o SelectSeq(arg.R, LAMBDA a : a.Key # "message")
       /\ (Len(arg.P) + Len(arg.R) + Len(arg.G) = 0 => res = <<>>)

\* two handler attributes and two record attributes, one keyed "message",
\* have been folded under two groups
C4_Witness ==
    /\ pc = "folded"
    /\ Len(arg.P) = 2 /\ Len(arg.R) = 2 /\ Len(arg.G) = 2
    /\ arg.R[1].Key = "message" /\ arg.R[2].Key = "c"
    /\ Len(res) = 1

(***************************************************************************)
(* Properties of the handler (Spec).                                       *)
(***************************************************************************)
Has(as, x) == \E i \in 1..Len(as) : as[i] = x

\* the members of the group reached from as along path (outermost first)
RECURSIVE MembersAt(_, _)
MembersAt(as, path) ==
    IF Len(path) = 0 THEN as
    ELSE LET S == {i \in 1..Len(as) : as[i].Key = Head(path) /\ as[i].Value.kind = "Group"}
         IN IF S = {} THEN <<>>
            ELSE MembersAt(as[CHOOSE i \in S : \A j \in S : i <= j].Value.grp, Tail(path))

\* the names of the groups opened by the first n steps of a chain, in call order
GroupsOpened(ch, n) ==
    LET S == SelectSeq(SubSeq(ch, 1, n), LAMBDA s : s.op = "WithGroup")
    IN [i \in 1..Len(S) |-> S[i].name]

\* the keys of the built-in fields and of the request attributes in a line
EmittedKeys ==
    {TimestampKey, SeverityKey, TextPayloadKey, SourceLocationKey, "httpRequest",
     "logging.googleapis.com/trace", "logging.googleapis.com/spanId"}

\* the members of a line that come from the caller's attributes
CallerMembers(line) == SelectSeq(line, LAMBDA a : a.Key \notin EmittedKeys)

\* the attributes as, nested under the groups names (outermost first)
RECURSIVE Nested(_, _)
Nested(names, as) ==
    IF Len(names) = 0 THEN as
    ELSE <<attr(Head(names), [kind |-> "Group", str |-> "", num |-> 0,
                              grp |-> Nested(Tail(names), as), src |-> NoSource])>>

\* a log call has written its line
Logged == call.op = "Handle" /\ call.err = "nil"

\* C1: deriving children never changes a handler: its attribute list and
\* its group list stay what they were when it was created, and after any
\* derivation it emits for every record the line it emitted before.
C1_DerivingLeavesParentUnchanged ==
    \A h \in 1..Len(handlers) :
       /\ Attrs(World, h) = born[h].attrs
       /\ Groups(World, h) = born[h].groups
       /\ call.op \in {"WithAttrs", "WithGroup"} =>
             \A r \in Records, c \in Contexts :
                handle(World, h, c, r)
                   = jsonHandle(handleRecord(born[h].attrs, born[h].groups,
                                             born[h].projectID, c, r))

\* a handler that has attributes has been given a child with more
C1_Witness ==
    /\ call.op = "WithAttrs" /\ call.h = 2 /\ call.p = 3
    /\ Len(born[2].attrs) > 0 /\ Len(call.attrs) > 0
    /\ Attrs(World, 3) = born[2].attrs \o call.attrs

\* C2: every attribute given to WithAttrs is emitted under exactly the groups
\* that were open on the handler when it was added, and the attributes of the
\* record under all the groups (stated for the keys that are not names of
\* built-in fields, which C6 is about).
C2_AttrsUnderGroupsOpenWhenAdded ==
    Logged =>
       LET ch == chain[call.h]
           plain(a) == a.Key \notin {"time", "level", "msg", "source", "message"}
       IN /\ \A i \in 1..Len(ch) : \A j \in 1..Len(ch[i].attrs) :
                plain(ch[i].attrs[j]) =>
                   Has(MembersAt(out, GroupsOpened(ch, i)), ch[i].attrs[j])
          /\ \A j \in 1..Len(call.rec.attrs) :
                plain(call.rec.attrs[j]) =>
                   Has(MembersAt(out, GroupsOpened(ch, Len(ch))), call.rec.attrs[j])

\* C13: every Handle hands one record to the JSON handler and returns what
\* that returns: the sink's error when the write failed, with nothing
\* written, and no error when it succeeded, with the line written; the
\* attribute and group lists of the handlers are what they were.
C13_HandleReturnsSinkError ==
    call.op = "Handle" =>
       /\ call.forwarded = 1
       /\ call.err = call.sink
       /\ call.sink # "nil" => out = <<>>
       /\ call.sink = "nil" => out = handle(World, call.h, call.c, call.rec) /\ Len(out) > 0
       /\ \A h \in 1..Len(handlers) :
             Attrs(World, h) = born[h].attrs /\ Groups(World, h) = born[h].groups

\* the sink has failed under a handler with attributes and groups
C13_Witness ==
    /\ call.op = "Handle" /\ call.sink = "EIO" /\ call.err = "EIO"
    /\ Len(born[call.h].attrs) > 0 /\ Len(born[call.h].groups) > 0
    /\ out = <<>>

\* C17: WithGroup("") returns its receiver, whose lists and lines stay what
\* they were; WithGroup of another name returns a new handler with the
\* attributes of the receiver and its groups with the name added as the
\* innermost, and leaves the receiver as it was.
C17_EmptyGroupIsNoOp ==
    call.op = "WithGroup" =>
       /\ Attrs(World, call.h) = born[call.h].attrs
       /\ Groups(World, call.h) = born[call.h].groups
       /\ \A r \in Records, c \in Contexts :
             handle(World, call.h, c, r)
                = jsonHandle(handleRecord(born[call.h].attrs, born[call.h].groups,
                                          born[call.h].projectID, c, r))
       /\ call.name = "" => call.p = call.h
       /\ call.name # "" =>
             /\ call.p = Len(handlers) /\ call.p # call.h
             /\ Groups(World, call.p) = <<call.name>> \o Groups(World, call.h)
             /\ Attrs(World, call.p) = Attrs(World, call.h)
             /\ \A r \in Records :
                   Len(r.attrs) > 0 /\ r.attrs[1].Key # "message" =>
                      Has(MembersAt(handle(World, call.p, Background, r),
                                    GroupsOpened(chain[call.p], Len(chain[call.p]))),
                          r.attrs[1])

\* WithGroup("") has been called on a handler that has an open group
C17_Witness ==
    /\ call.op = "WithGroup" /\ call.name = "" /\ call.p = call.h
    /\ Len(born[call.h].groups) > 0 /\ Len(handlers) = 2

\* no two members of a group have the same key, in as and in its groups
RECURSIVE UniqueKeys(_)
UniqueKeys(as) ==
    /\ \A i, j \in 1..Len(as) : i # j => as[i].Key # as[j].Key
    /\ \A i \in 1..Len(as) : as[i].Value.kind = "Group" => UniqueKeys(as[i].Value.grp)

\* C18: in every line written, the keys are unique within each group, the
\* top level included.
C18_KeysUniqueInEachGroup == Logged => UniqueKeys(out)

\* the handler was derived by WithGroup calls only, at least one
OnlyGroups(ch) == Len(ch) >= 1 /\ \A i \in 1..Len(ch) : ch[i].op = "WithGroup"

\* C3 as claimed: after WithGroup(g1), ..., WithGroup(gn) a record with
\* attributes is emitted as one top-level attribute g1 that nests g2, ..., gn
\* in call order, with the attributes of the record inside gn in their order.
C3_GroupsNestInCallOrder ==
    Logged /\ OnlyGroups(chain[call.h]) /\ Len(call.rec.attrs) >= 1 =>
       CallerMembers(out)
          = Nested(GroupsOpened(chain[call.h], Len(chain[call.h])), call.rec.attrs)

\* C3 as amended: the same for a record with at least one attribute whose key
\* is not "message", and for the attributes of the record whose key is not
\* "message": those keyed "message" are not emitted.
C3_GroupsNestAllButMessage ==
    LET kept == SelectSeq(call.rec.attrs, LAMBDA a : a.Key # "message")
    IN Logged /\ OnlyGroups(chain[call.h]) /\ Len(kept) >= 1 =>
          CallerMembers(out) = Nested(GroupsOpened(chain[call.h], Len(chain[call.h])), kept)

\* WithGroup("g").WithGroup("k") has logged a record with attributes c and d
C3_Witness ==
    /\ Logged
    /\ GroupsOpened(chain[call.h], Len(chain[call.h])) = <<"g", "k">>
    /\ OnlyGroups(chain[call.h])
    /\ Len(call.rec.attrs) = 2 /\ call.rec.attrs[1].Key = "c" /\ call.rec.attrs[2].Key = "d"
    /\ Len(MembersAt(out, <<"g", "k">>)) = 2

\* C5: every line written carries the record's message, unchanged, under the
\* top-level key "message".
C5_MessageUnderMessageKey ==
    Logged => Has(out, String("message", call.rec.Message))

\* every member of a line, those of its groups included
RECURSIVE Flatten(_)
Flatten(as) ==
    IF Len(as) = 0 THEN <<>>
    ELSE (IF Head(as).Value.kind = "Group" THEN Flatten(Head(as).Value.grp) ELSE <<Head(as)>>)
         \o Flatten(Tail(as))

\* C6: every attribute of the caller, of the handler or of the record, is
\* emitted with the key and the value it was given, also when its key is the
\* name of a built-in field (stated for the keys time, level, msg and source
\* and the ordinary ones; the key "message" is C4's subject).
C6_CallerAttrsVerbatim ==
    Logged =>
       /\ \A i \in 1..Len(born[call.h].attrs) :
             Has(Flatten(out), born[call.h].attrs[i])
       /\ \A j \in 1..Len(call.rec.attrs) :
             call.rec.attrs[j].Key # "message" => Has(Flatten(out), call.rec.attrs[j])

(***************************************************************************)
(* Properties of the middleware (SpecHTTP).                                *)
(***************************************************************************)
TraceKeys == {"logging.googleapis.com/trace", "trace"}

SpanKeys == {"logging.googleapis.com/spanId", "spanId"}

RequestKeys == {"httpRequest"} \cup TraceKeys \cup SpanKeys

BuiltinKeys == {TimestampKey, SeverityKey, TextPayloadKey, SourceLocationKey}

Keys(as) == [i \in 1..Len(as) |-> as[i].Key]

\* the members of a line that come from the request context
RequestPart(line) == SelectSeq(line, LAMBDA a : a.Key \in RequestKeys)

\* the members of a line that are built-in fields of the record
BuiltinPart(line) == SelectSeq(line, LAMBDA a : a.Key \in BuiltinKeys)

\* what the base handler writes for the record's own attributes
CallerPart == SelectSeq(call.rec.attrs, LAMBDA a : a.Key # "message")

\* the line is the built-in fields, then the request's members, then the
\* caller's attributes
InOrder == out = BuiltinPart(out) \o RequestPart(out) \o CallerPart

\* the request has a value for a sub-field of httpRequest
NonEmptySource(r) ==
    \/ r.Method # "" \/ URLString(r.URL) # "" \/ r.RemoteAddr # "" \/ r.Proto # ""
    \/ Get(r.Header, "User-Agent") # "" \/ Get(r.Header, "Referer") # ""

\* C11 as claimed: a log call without a request-context entry writes no
\* httpRequest, trace or span member and returns no error; one with an
\* entry writes the httpRequest group, then the trace attributes, before the
\* caller's attributes.
C11_EntryGivesRequestThenTrace ==
    call.op = "Handle" =>
       /\ call.err = "nil"
       /\ InOrder
       /\ ~call.c.has => RequestPart(out) = <<>>
       /\ call.c.has =>
             \E t \in TraceKeys, sp \in SpanKeys :
                Keys(RequestPart(out))
                   \in {<<"httpRequest">>, <<"httpRequest", t>>, <<"httpRequest", t, sp>>}

\* C11 as amended: the same, but the httpRequest group is written when the
\* request had a value for at least one of its sub-fields; an empty group is
\* left out, and the trace attributes then come first.
C11_EntryGivesNonEmptyRequestThenTrace ==
    call.op = "Handle" =>
       /\ call.err = "nil"
       /\ InOrder
       /\ ~call.c.has => RequestPart(out) = <<>>
       /\ call.c.has =>
             /\ \E t \in TraceKeys, sp \in SpanKeys :
                   Keys(RequestPart(out))
                      \in {<<>>, <<t>>, <<t, sp>>,
                           <<"httpRequest">>, <<"httpRequest", t>>, <<"httpRequest", t, sp>>}
             /\ NonEmptySource(res[call.p]) =>
                   /\ RequestPart(out)[1].Key = "httpRequest"
                   /\ RequestPart(out)[1].Value.kind = "Group"
                   /\ Len(RequestPart(out)[1].Value.grp) > 0

\* a log call with a request's context has written the request, its trace
\* and its span before the record's attribute
C11_Witness ==
    /\ call.op = "Handle" /\ call.c.has
    /\ Len(RequestPart(out)) = 3
    /\ Len(call.rec.attrs) = 1
    /\ out[Len(out)] = call.rec.attrs[1]

\* the sub-fields of httpRequest and their sources in request r
SubFields(r) ==
    << <<"requestMethod", r.Method>>, <<"requestUrl", URLString(r.URL)>>,
       <<"userAgent", Get(r.Header, "User-Agent")>>, <<"remoteIp", r.RemoteAddr>>,
       <<"referer", Get(r.Header, "Referer")>>, <<"protocol", r.Proto>> >>

\* the httpRequest group a log call with context c would write now
RequestGroup(c) ==
    LET as == httpAttrsOf(arg.build, arg.reqs, c, handlers[1].projectID)
    IN IF Len(as) > 0 /\ as[1].Key = "httpRequest" THEN as[1].Value.grp ELSE <<>>

\* C12: in the httpRequest group built when the middleware receives a
\* request, each sub-field is present exactly when its source in the request
\* is not empty, and no sub-field has the empty string as value.
C12_SubFieldsIffNonEmpty ==
    call.op = "ServeHTTP" =>
       LET g == RequestGroup(ctx[call.p])
           f == SubFields(arg.reqs[call.p])
       IN /\ \A k \in 1..Len(f) : Has(g, String(f[k][1], f[k][2])) <=> f[k][2] # ""
          /\ \A j \in 1..Len(g) : g[j].Value.str # ""
          /\ Len(g) = Cardinality({k \in 1..Len(f) : f[k][2] # ""})

\* C16: every log call made with a request's context writes the line that
\* the request as it was when the middleware ran determines, whatever the
\* wrapped handler did to the request since and whatever other request is
\* in flight.
C16_EntryFixedAtMiddleware ==
    call.op = "Handle" /\ call.p > 0 =>
       out = logLine(arg.build, res, World, 1, serveContext(arg.build, res, call.p), call.rec)

(***************************************************************************)
(* Properties of the caller's ReplaceAttr function (SpecHook).             *)
(***************************************************************************)
\* the line a handler without a function of the caller writes for the call
CoreLine ==
    jsonHandleWith([opts EXCEPT !.ReplaceAttr = "nil"],
                   handleRecord(born[call.h].attrs, born[call.h].groups,
                                born[call.h].projectID, call.c, call.rec))

\* the caller's function f applied to every member of a line that is not a
\* group, inside the groups it is in; what f drops is left out
RECURSIVE Hooked(_, _, _)
Hooked(f, groups, as) ==
    IF Len(as) = 0 THEN <<>>
    ELSE LET a == Head(as)
             b == Repl(f, groups, a)
         IN (IF a.Value.kind = "Group"
             THEN <<attr(a.Key, GroupValue(Hooked(f, groups \o <<a.Key>>, a.Value.grp)))>>
             ELSE IF b = EmptyGroup THEN <<>> ELSE <<b>>)
            \o Hooked(f, groups, Tail(as))

\* C14 as claimed: the caller's function runs on what the core rewrite made,
\* and the key and the value that the core rewrite produced for a built-in
\* field are written whatever the caller's function does.
C14_CoreTakesPrecedence ==
    Logged =>
       /\ out = Hooked(opts.ReplaceAttr, <<>>, CoreLine)
       /\ \A i \in 1..Len(CoreLine) :
             CoreLine[i].Key \in BuiltinKeys => Has(out, CoreLine[i])

\* C14 as amended: the core rewrite runs first and the caller's function
\* runs on its result, with the keys the core gave; what the caller's
\* function returns is what is written, so it can replace or drop a built-in
\* field that the core rewrote.
C14_CallerRunsOnCoreResult ==
    Logged => out = Hooked(opts.ReplaceAttr, <<>>, CoreLine)

\* removeTime has dropped the time of a record that has one, from a line
\* with attributes of the handler
C14_Witness ==
    /\ Logged
    /\ opts.ReplaceAttr = "removeTime"
    /\ call.rec.Time.num # 0
    /\ Len(born[call.h].attrs) > 0
    /\ \E i \in 1..Len(CoreLine) : CoreLine[i].Key = TimestampKey /\ ~Has(out, CoreLine[i])

(***************************************************************************)
(* Properties of concurrent callers (SpecRace).                            *)
(***************************************************************************)
\* the attributes a chain of derivations gives a handler, in call order
RECURSIVE ChainAttrs(_)
ChainAttrs(ch) ==
    IF Len(ch) = 0 THEN <<>>
    ELSE (IF Head(ch).op = "WithAttrs" THEN Head(ch).attrs ELSE <<>>) \o ChainAttrs(Tail(ch))

\* the groups a chain of derivations opens, innermost first
RECURSIVE ChainGroups(_)
ChainGroups(ch) ==
    IF Len(ch) = 0 THEN <<>>
    ELSE ChainGroups(Tail(ch)) \o (IF Head(ch).op = "WithGroup" THEN <<Head(ch).name>> ELSE <<>>)

\* the line a handler derived by chain ch writes for record r when the
\* chain and the log call are run with nothing else going on
Alone(ch, r) ==
    jsonHandle(handleRecord(ChainAttrs(ch), ChainGroups(ch), "test", Background, r))

\* C15: whatever the interleaving of the callers' steps, every line written
\* is the one its handler's own chain of derivations and its record give
\* when run alone, no step writes to storage that another handler refers
\* to, and every handler returned keeps its lists.
C15_CallersDoNotInterfere ==
    pc = "race" =>
       /\ ~res.raced
       /\ call.op = "Handle" => out = Alone(chain[call.h], call.rec)
       /\ \A h \in res.pub :
             /\ Attrs(World, h) = ChainAttrs(chain[h])
             /\ Groups(World, h) = ChainGroups(chain[h])
       /\ \A h, k \in 1..Len(handlers) :
             h # k /\ handlers[h].attrs.arr # 0 => handlers[h].attrs.arr # handlers[k].attrs.arr

\* both callers are inside Handle on the same handler, which has attributes
\* in an array with room to spare, while a line has been written
C15_Witness ==
    /\ pc = "race"
    /\ arg[1].pc = "folded" /\ arg[2].pc = "folded" /\ arg[1].h = arg[2].h
    /\ handlers[arg[1].h].attrs.len = 3
    /\ Cap(attrHeap, handlers[arg[1].h].attrs) = 4
    /\ call.op = "Handle"

====
